---- MODULE Spec2Model ----
(***************************************************************************)
(* A model of mylib (src/mylib/path.py, src/mylib/io.py): the path         *)
(* sanitiser fix_path, avoid_overwrite, mkdir_empty, the self-deleting     *)
(* TempDirPath handle, the Outputter text sink and the num_input prompt.   *)
(*                                                                         *)
(* A character is a one-character string ("LF", "CR", "TAB", "VT" stand    *)
(* for the control characters \n \r \t \v); a string of the program is a   *)
(* tuple of characters; a path is the tuple of its components (what        *)
(* pathlib calls path.parts).                                              *)
(***************************************************************************)
EXTENDS Integers, Sequences, FiniteSets, TLC

VARIABLES
    \* fix_path
    path, flavour, pre_period, new_char, fixed1, fixed2,
    \* avoid_overwrite
    listing, ao_call,
    \* TempDirPath and mkdir_empty: the file system, the handle, the derived values
    fs, handle, derived, op, before,
    \* Outputter
    txt, outputter, msgs,
    \* num_input
    ni_args, ni_read, ni_state

fixVars == <<path, flavour, pre_period, new_char, fixed1, fixed2>>
avoidVars == <<listing, ao_call>>
tempVars == <<fs, handle, derived, op, before>>
outVars == <<txt, outputter, msgs>>
numVars == <<ni_args, ni_read, ni_state>>
vars == <<fixVars, avoidVars, tempVars, outVars, numVars>>

(***************************************************************************)
(* Bounds of the model.                                                    *)
(***************************************************************************)
MaxComps == 2

\* avoid_overwrite: the entries the directory may hold, the highest number
\* a name the directory may hold at the start carries.
MaxFiles == 3

MaxN == 2

\* Outputter: the output calls made.
MaxOutputs == 3

\* num_input: the lines read, the largest start or stop.
MaxLines == 2

MaxNum == 2

\* TempDirPath: the derived values alive at a time.
MaxDerived == 1

(***************************************************************************)
(* Characters.                                                             *)
(***************************************************************************)
Digits == {"0", "1", "2", "3", "4", "5", "6", "7", "8", "9"}

Letters == {"a", "b", "c", "l", "m", "n", "o", "p", "r", "t", "u", "x",
            "C", "N", "O"}

\* str.lower() on one character (what re.IGNORECASE compares).
Lower(c) ==
    CASE c = "C" -> "c"
      [] c = "N" -> "n"
      [] c = "O" -> "o"
      [] OTHER -> c

\* The character class [\:\*\?"\<\>\|\n\r\t\v] of fix_path.
WinIllegal == {":", "*", "?", "\"", "<", ">", "|", "LF", "CR", "TAB", "VT"}

\* comp in ('.', '..')
IsDots(comp) == comp \in {<<".">>, <<".", ".">>}

\* str.replace / re.sub of a character class by a single character.
ReplaceChars(comp, bad, c) ==
    [i \in 1..Len(comp) |-> IF comp[i] \in bad THEN c ELSE comp[i]]

\* re.compile(r'[a-zA-Z]\:\\').fullmatch(comp): a drive with its root, c:\
IsDriveRoot(comp) ==
    /\ Len(comp) = 3
    /\ comp[1] \in Letters
    /\ comp[2] = ":"
    /\ comp[3] = "\\"

\* Length of the match of ^(aux|con|nul|prn|com\d|lpt\d) under re.IGNORECASE
\* at the start of comp, 0 when there is none.
ReservedPrefixLen(comp) ==
    LET low == [i \in 1..Len(comp) |-> Lower(comp[i])]
        three == IF Len(comp) >= 3 THEN SubSeq(low, 1, 3) ELSE <<>>
    IN  IF three \in {<<"a", "u", "x">>, <<"c", "o", "n">>,
                      <<"n", "u", "l">>, <<"p", "r", "n">>}
        THEN 3
        ELSE IF /\ three \in {<<"c", "o", "m">>, <<"l", "p", "t">>}
                /\ Len(comp) >= 4
                /\ comp[4] \in Digits
        THEN 4
        ELSE 0

\* (a variant of IsReserved that matches the bare device name only)
IsReserved_without_extension(comp) ==
    ReservedPrefixLen(comp) > 0 /\ Len(comp) = ReservedPrefixLen(comp)

\* re.fullmatch(r'(aux|con|nul|prn|com\d|lpt\d)(\..+)?', comp, re.IGNORECASE);
\* '.' of a regular expression matches every character but the newline.
IsReserved(comp) ==
    LET k == ReservedPrefixLen(comp)
    IN  /\ k > 0
        /\ \/ Len(comp) = k
           \/ /\ Len(comp) >= k + 2
              /\ comp[k + 1] = "."
              /\ \A j \in (k + 2)..Len(comp) : comp[j] # "LF"

(***************************************************************************)
(* fix_path, one list comprehension after the other.                       *)
(***************************************************************************)

\* if not pre_period: comps = [new_char + comp[1:] for comp in comps
\*                             if comp[0]=='.' and not comp in ('.', '..')]
\* The trailing "if" of a comprehension is a filter: a component that does
\* not start with a period is left out of the list.
RECURSIVE LeadingPeriodStep(_, _)
LeadingPeriodStep(comps, c) ==
    IF comps = <<>> THEN <<>>
    ELSE LET comp == Head(comps)
         IN  IF comp[1] = "." /\ ~IsDots(comp)
             THEN <<(<<c>> \o Tail(comp))>> \o LeadingPeriodStep(Tail(comps), c)
             ELSE LeadingPeriodStep(Tail(comps), c)

\* comps = [comp.replace(':', new_char) for comp in comps]
PosixStep(comps, c) ==
    [i \in 1..Len(comps) |-> ReplaceChars(comps[i], {":"}, c)]

\* The first comprehension of the Windows branch (index 0 is index 1 here).
WinIllegalStep(comps, c) ==
    [i \in 1..Len(comps) |->
        IF ~(i = 1 /\ IsDriveRoot(comps[i]))
        THEN ReplaceChars(comps[i], WinIllegal, c)
        ELSE comps[i]]

\* comp[:-1] + new_char if comp[-1]=='.' and not comp in ('.', '..') else comp
TrailingPeriodComp(comp, c) ==
    IF comp[Len(comp)] = "." /\ ~IsDots(comp)
    THEN SubSeq(comp, 1, Len(comp) - 1) \o <<c>>
    ELSE comp

WinTrailingStep(comps, c) ==
    [i \in 1..Len(comps) |-> TrailingPeriodComp(comps[i], c)]

\* re.sub(r'^(aux|...)', f'\\1{new_char}', comp) if re.fullmatch(...) else comp
ReservedComp(comp, c) ==
    IF IsReserved(comp)
    THEN LET k == ReservedPrefixLen(comp)
         IN  SubSeq(comp, 1, k) \o <<c>> \o SubSeq(comp, k + 1, Len(comp))
    ELSE comp

WinReservedStep(comps, c) ==
    [i \in 1..Len(comps) |-> ReservedComp(comps[i], c)]

\* The replacement template is '\1' followed by new_char: with a digit it names
\* group 10..19, which the pattern has not, and re.sub raises re.error as
\* soon as one component matches.
TemplateRaises(comps, c) ==
    /\ c \in Digits
    /\ \E i \in 1..Len(comps) : IsReserved(comps[i])

\* Path(*comps): pathlib joins the components and parses the result again,
\* which leaves out every '.' component (no component is empty and, the
\* replacement character being no separator, none is split).
RECURSIVE PathOf(_)
PathOf(comps) ==
    IF comps = <<>> THEN <<>>
    ELSE IF Head(comps) = <<".">> THEN PathOf(Tail(comps))
    ELSE <<Head(comps)>> \o PathOf(Tail(comps))

Returned(parts) == [err |-> "none", parts |-> parts]
Raised(e) == [err |-> e, parts |-> <<>>]

fix_path(p, fl, pre, c) ==
    LET s1 == IF ~pre THEN LeadingPeriodStep(p, c) ELSE p
        s2 == IF fl = "posix" THEN PosixStep(s1, c) ELSE s1
        w1 == WinIllegalStep(s2, c)
        w2 == WinTrailingStep(w1, c)
    IN  IF fl = "windows"
        THEN IF TemplateRaises(w2, c) THEN Raised("re.error")
             ELSE Returned(PathOf(WinReservedStep(w2, c)))
        ELSE Returned(PathOf(s2))

(***************************************************************************)
(* The inputs of fix_path: the parts of a path of either flavour.          *)
(***************************************************************************)
Flavours == {"posix", "windows"}

\* The replacement characters tried (none is a path separator).
NewChars == {"_", ".", "1"}

\* Names a component may have on either flavour ('.' is never a part:
\* pathlib drops it).
CommonComps ==
    { <<"a">>, <<".", ".">>, <<".", "a">>, <<"a", ".">>, <<"a", ".", "b">>,
      <<":">>, <<"*">>, <<"a", "LF">>, <<".", ".", ".">>,
      <<"c", "o", "n">>, <<"C", "o", "N">>, <<"c", "o", "n", ".">>,
      <<"c", "o", "n", ".", "t", "x", "t">>, <<"c", "o", "n", "a">>,
      <<".", "c", "o", "n">>, <<"c", "o", "n", ":">>,
      <<"c", "o", "m">>, <<"c", "o", "m", "1">>,
      <<"c", "o", "m", "1", ".", "a", ".", "b">>,
      <<"l", "p", "t", "2", ".">>, <<"a", "u", "x">>, <<"n", "u", "l", "*">> }

\* On Windows pathlib reads a letter and a colon at the start of a segment
\* as a drive, so a:b*c has the parts a: and b*c; on POSIX it is one part.
Comps(fl) ==
    IF fl = "posix"
    THEN CommonComps \cup { <<"a", ":", "b">>, <<"a", ":", "b", "*", "c">> }
    ELSE CommonComps \cup { <<"a", "b", ":", "c">>, <<"b", "*", "c">> }

\* What parts[0] may also be: the root of a POSIX path; a drive with its
\* root, a bare root or a bare drive of a Windows path.
Anchors(fl) ==
    IF fl = "posix" THEN { <<"/">> }
    ELSE { <<"c", ":", "\\">>, <<"\\">>, <<"a", ":">> }

PathsOf(fl) ==
    UNION { { p \in [1..n -> Comps(fl) \cup Anchors(fl)] :
                \A i \in 2..n : p[i] \in Comps(fl) } : n \in 0..MaxComps }

NotCalled == [err |-> "not called", parts |-> <<>>]

FixIdle ==
    /\ path = <<>> /\ flavour = "posix" /\ pre_period = TRUE /\ new_char = "_"
    /\ fixed1 = NotCalled /\ fixed2 = NotCalled

InitFix ==
    /\ flavour \in Flavours
    /\ pre_period \in BOOLEAN
    /\ new_char \in NewChars
    /\ path \in PathsOf(flavour)
    /\ fixed1 = NotCalled
    /\ fixed2 = NotCalled

\* fixed1 = fix_path(path, pre_period, new_char)
FixOnce ==
    /\ fixed1 = NotCalled
    /\ fixed1' = fix_path(path, flavour, pre_period, new_char)
    /\ UNCHANGED <<path, flavour, pre_period, new_char, fixed2>>

\* fixed2 = fix_path(fixed1, pre_period, new_char)
FixTwice ==
    /\ fixed1.err = "none"
    /\ fixed2 = NotCalled
    /\ fixed2' = fix_path(fixed1.parts, flavour, pre_period, new_char)
    /\ UNCHANGED <<path, flavour, pre_period, new_char, fixed1>>

(***************************************************************************)
(* avoid_overwrite. The directory of the path is the set of the names it   *)
(* holds; path.exists() is membership.                                     *)
(***************************************************************************)

\* Position of the last period of a name (str.rfind('.'), 1-based; 0: none).
LastPeriod(name) ==
    LET ks == {k \in 1..Len(name) : name[k] = "."}
    IN  IF ks = {} THEN 0 ELSE CHOOSE k \in ks : \A j \in ks : j <= k

\* PurePath.suffix: from the last period on, unless that period is the first
\* or the last character of the name.
Suffix(name) ==
    LET k == LastPeriod(name)
    IN  IF 1 < k /\ k < Len(name) THEN SubSeq(name, k, Len(name)) ELSE <<>>

\* PurePath.stem
Stem(name) ==
    LET k == LastPeriod(name)
    IN  IF 1 < k /\ k < Len(name) THEN SubSeq(name, 1, k - 1) ELSE name

DigitChar(d) == <<"0", "1", "2", "3", "4", "5", "6", "7", "8", "9">>[d + 1]

\* str(n) of the f-string, n >= 0
RECURSIVE Str(_)
Str(n) ==
    IF n < 10 THEN <<DigitChar(n)>>
    ELSE Str(n \div 10) \o <<DigitChar(n % 10)>>

\* (a variant of NewPath that numbers the whole name whatever is_dir is)
NewPath_whole_name(name, is_dir, n) ==
    name \o <<" ", "(">> \o Str(n) \o <<")">>

\* path.with_name(f'{path.name} ({n})') if is_dir
\* else path.with_stem(f'{path.stem} ({n})'), with_stem keeping the suffix.
NewPath(name, is_dir, n) ==
    IF is_dir
    THEN name \o <<" ", "(">> \o Str(n) \o <<")">>
    ELSE Stem(name) \o <<" ", "(">> \o Str(n) \o <<")">> \o Suffix(name)

\* The loop "while True: ... n += 1" from n on.
RECURSIVE FirstFree(_, _, _, _)
FirstFree(ls, name, is_dir, n) ==
    IF NewPath(name, is_dir, n) \notin ls THEN NewPath(name, is_dir, n)
    ELSE FirstFree(ls, name, is_dir, n + 1)

avoid_overwrite(ls, name, is_dir) ==
    IF name \notin ls THEN name ELSE FirstFree(ls, name, is_dir, 1)

\* The paths avoid_overwrite is called on (each has a name).
BaseNames ==
    { <<"r", "e", "p", "o", "r", "t", ".", "t", "x", "t">>,
      <<"a", ".", "b", ".", "c">>,
      <<".", "r", "c">> }

\* The names the directory may hold.
NameUniverse ==
    BaseNames \cup
    { NewPath(b, d, n) : b \in BaseNames, d \in BOOLEAN, n \in 1..MaxN }

InitAvoid == listing = {} /\ ao_call = <<>>

\* Somebody creates an entry of the directory.
CreateEntry ==
    /\ Cardinality(listing) < MaxFiles
    /\ \E name \in NameUniverse \ listing : listing' = listing \cup {name}
    /\ UNCHANGED ao_call

\* avoid_overwrite(path, is_dir): only path.exists() touches the file system.
AvoidOverwrite ==
    \E name \in BaseNames, is_dir \in BOOLEAN :
        /\ listing' = listing
        /\ ao_call' = [path |-> name, is_dir |-> is_dir,
                       was |-> listing, now |-> listing',
                       result |-> avoid_overwrite(listing, name, is_dir)]

NextAvoid ==
    \/ CreateEntry /\ UNCHANGED <<fixVars, tempVars, outVars, numVars>>
    \/ AvoidOverwrite /\ UNCHANGED <<fixVars, tempVars, outVars, numVars>>

(***************************************************************************)
(* Outputter. The text file is absent or holds a string.                   *)
(***************************************************************************)
Absent == [exists |-> FALSE, content |-> <<>>]

\* with open(path, mode) as f: f.write(msg), mode 'w' or 'a': both create a
\* missing file, 'w' truncates, 'a' writes at the end.
WriteText(file, mode, msg) ==
    IF mode = "w" THEN [exists |-> TRUE, content |-> msg]
    ELSE [exists |-> TRUE, content |-> file.content \o msg]

\* Outputter.__init__: open(..., 'w') and f.write('')
OutputterInitFile(file) == WriteText(file, "w", <<>>)

\* (a variant of OutputFile that opens the file with 'w')
OutputFile_truncating(file, msg) == WriteText(file, "w", msg)

\* Outputter.output: open(..., 'a') and f.write(msg)
OutputFile(file, msg) == WriteText(file, "a", msg)

Messages == { <<>>, <<"a">>, <<"b">>, <<"a", "b">>, <<"a", "LF", "b">> }

InitOut ==
    /\ txt \in {Absent, [exists |-> TRUE, content |-> <<>>],
                [exists |-> TRUE, content |-> <<"o", "l", "d">>]}
    /\ outputter = [made |-> FALSE]
    /\ msgs = <<>>

OutputterNew ==
    /\ ~outputter.made
    /\ txt' = OutputterInitFile(txt)
    /\ outputter' = [made |-> TRUE]
    /\ msgs' = <<>>

Output ==
    /\ outputter.made
    /\ Len(msgs) < MaxOutputs
    /\ \E msg \in Messages :
          /\ txt' = OutputFile(txt, msg)
          /\ msgs' = Append(msgs, msg)
    /\ UNCHANGED outputter

NextOut ==
    \/ OutputterNew /\ UNCHANGED <<fixVars, avoidVars, tempVars, numVars>>
    \/ Output /\ UNCHANGED <<fixVars, avoidVars, tempVars, numVars>>

(***************************************************************************)
(* num_input.                                                              *)
(***************************************************************************)
DigitValue(c) == CHOOSE d \in 0..9 : DigitChar(d) = c

\* str.strip() of the blanks int() ignores around the number
RECURSIVE StripBlanks(_)
StripBlanks(line) ==
    IF line = <<>> THEN line
    ELSE IF Head(line) = " " THEN StripBlanks(Tail(line))
    ELSE IF line[Len(line)] = " "
    THEN StripBlanks(SubSeq(line, 1, Len(line) - 1))
    ELSE line

RECURSIVE DigitsValue(_)
DigitsValue(ds) ==
    IF ds = <<>> THEN 0
    ELSE 10 * DigitsValue(SubSeq(ds, 1, Len(ds) - 1)) + DigitValue(ds[Len(ds)])

\* int(choice): blanks around, an optional sign, then one digit or more;
\* anything else raises ValueError (ok = FALSE).
ParseInt(line) ==
    LET s == StripBlanks(line)
        signed == s # <<>> /\ Head(s) \in {"+", "-"}
        ds == IF signed THEN Tail(s) ELSE s
    IN  IF ds # <<>> /\ \A i \in 1..Len(ds) : ds[i] \in Digits
        THEN [ok |-> TRUE,
              val |-> IF signed /\ Head(s) = "-" THEN 0 - DigitsValue(ds)
                      ELSE DigitsValue(ds)]
        ELSE [ok |-> FALSE, val |-> 0]

\* (a variant of InRange that takes stop in)
InRange_stop_included(num, start, stop) == start <= num /\ num <= stop

\* num in nums, nums = list(range(start, stop))
InRange(num, start, stop) == start <= num /\ num < stop

\* The body of the loop on one line: the number to return, or none
\* (the bare "except: pass" swallows the ValueError, and the loop goes on).
Accepts(line, start, stop) ==
    /\ ParseInt(line).ok
    /\ InRange(ParseInt(line).val, start, stop)

Lines ==
    { <<>>, <<"0">>, <<"1">>, <<"2">>, <<"3">>, <<"-", "1">>, <<"+", "1">>,
      <<"1", "2">>, <<"x">>, <<"1", "x">>, <<" ", "2", " ">>, <<"-">>,
      <<"1", ".", "0">> }

InitNum ==
    /\ ni_args \in [start : (0 - 1)..MaxNum, stop : (0 - 1)..MaxNum]
    /\ ni_read = <<>>
    /\ ni_state = [pc |-> "reading", result |-> 0, err |-> "none"]

\* One turn of the loop: input() yields a line.
ReadLine ==
    /\ ni_state.pc = "reading"
    /\ Len(ni_read) < MaxLines
    /\ \E line \in Lines :
          /\ ni_read' = Append(ni_read, line)
          /\ ni_state' =
                IF Accepts(line, ni_args.start, ni_args.stop)
                THEN [pc |-> "returned", result |-> ParseInt(line).val,
                      err |-> "none"]
                ELSE ni_state
    /\ UNCHANGED ni_args

\* input() at the end of the input raises EOFError, outside of the try.
EndOfInput ==
    /\ ni_state.pc = "reading"
    /\ ni_state' = [pc |-> "raised", result |-> 0, err |-> "EOFError"]
    /\ UNCHANGED <<ni_args, ni_read>>

NextNum ==
    \/ ReadLine /\ UNCHANGED <<fixVars, avoidVars, tempVars, outVars>>
    \/ EndOfInput /\ UNCHANGED <<fixVars, avoidVars, tempVars, outVars>>

(***************************************************************************)
(* The file system of TempDirPath and mkdir_empty: a function from the     *)
(* paths that exist (tuples of names) to what is there, a directory or a   *)
(* file with its content. The root <<>> is always a directory.             *)
(***************************************************************************)
Dir == [kind |-> "dir", data |-> "-"]
File(d) == [kind |-> "file", data |-> d]

IsPrefix(p, q) == Len(p) <= Len(q) /\ SubSeq(q, 1, Len(p)) = p

Parent(p) == SubSeq(p, 1, Len(p) - 1)

\* Path.exists(), Path.is_dir()
Exists(f, p) == p = <<>> \/ p \in DOMAIN f
IsDir(f, p) == p = <<>> \/ (p \in DOMAIN f /\ f[p].kind = "dir")

Subtree(f, p) == {q \in DOMAIN f : IsPrefix(p, q)}

\* The names Path.iterdir() yields
ChildNames(f, p) ==
    {q[Len(q)] : q \in {r \in DOMAIN f : Len(r) = Len(p) + 1 /\ IsPrefix(p, r)}}

Without(f, gone) == [q \in DOMAIN f \ gone |-> f[q]]
With(f, p, node) == [q \in DOMAIN f \cup {p} |-> IF q = p THEN node ELSE f[q]]

Done(f) == [fs |-> f, err |-> "none"]
Fails(f, e) == [fs |-> f, err |-> e]

\* shutil.rmtree(path, ignore_errors): a missing path and a path that is no
\* directory are errors, which ignore_errors swallows; nothing is removed then.
RmTree(f, p, ignore_errors) ==
    IF ~Exists(f, p)
    THEN Fails(f, IF ignore_errors THEN "none" ELSE "FileNotFoundError")
    ELSE IF ~IsDir(f, p)
    THEN Fails(f, IF ignore_errors THEN "none" ELSE "NotADirectoryError")
    ELSE Done(Without(f, Subtree(f, p)))

\* Path.mkdir(): the parent must be a directory, the path must not exist.
Mkdir(f, p) ==
    IF Exists(f, p) THEN Fails(f, "FileExistsError")
    ELSE IF ~Exists(f, Parent(p)) THEN Fails(f, "FileNotFoundError")
    ELSE IF ~IsDir(f, Parent(p)) THEN Fails(f, "NotADirectoryError")
    ELSE Done(With(f, p, Dir))

\* Path.mkdir(parents=True): the missing parents are made first.
RECURSIVE MkdirParents(_, _)
MkdirParents(f, p) ==
    IF Exists(f, p) THEN Fails(f, "FileExistsError")
    ELSE IF Exists(f, Parent(p)) THEN Mkdir(f, p)
    ELSE LET up == MkdirParents(f, Parent(p))
         IN  IF up.err # "none" THEN up ELSE Mkdir(up.fs, p)

\* os.rename(src, dst) of an existing src onto a dst that is absent or a
\* file src may replace: the tree at src is at dst afterwards.
Rename(f, src, dst) ==
    LET moved == Subtree(f, src)
        rest == Without(f, moved \cup {dst})
        Target(m) == dst \o SubSeq(m, Len(src) + 1, Len(m))
    IN  [q \in DOMAIN rest \cup {Target(m) : m \in moved} |->
            IF q \in DOMAIN rest THEN rest[q]
            ELSE f[src \o SubSeq(q, Len(dst) + 1, Len(q))]]

\* shutil.move(src, dst), src existing, both on one file system: a dst that
\* is a directory receives src inside it, under src's name, and refuses when
\* that name is taken; otherwise src is renamed to dst, which replaces a
\* file by a file, and fails for a directory onto a file (the copytree
\* fallback cannot make the directory).
ShutilMove(f, src, dst) ==
    IF IsDir(f, dst)
    THEN LET real_dst == dst \o <<src[Len(src)]>>
         IN  IF Exists(f, real_dst) THEN Fails(f, "shutil.Error")
             ELSE Done(Rename(f, src, real_dst))
    ELSE IF IsDir(f, src) /\ Exists(f, dst) THEN Fails(f, "FileExistsError")
    ELSE Done(Rename(f, src, dst))

(***************************************************************************)
(* mkdir_empty                                                             *)
(***************************************************************************)

\* if not exist_ok: FileExistsError(...)  -- the exception is constructed and
\* dropped: there is no raise, and the call goes on.
ExistOkCheck(f, p, exist_ok) == "none"

\* if path.is_dir(): shutil.rmtree(path) else: path.unlink()
Remove(f, p) ==
    IF IsDir(f, p) THEN RmTree(f, p, FALSE)
    ELSE IF Exists(f, p) THEN Done(Without(f, {p}))
    ELSE Fails(f, "FileNotFoundError")

mkdir_empty(f, p, exist_ok) ==
    LET made == IF ~Exists(f, p) THEN MkdirParents(f, p) ELSE Done(f)
        checked == ExistOkCheck(made.fs, p, exist_ok)
        removed == Remove(made.fs, p)
    IN  IF made.err # "none" THEN made
        ELSE IF checked # "none" THEN Fails(made.fs, checked)
        ELSE IF removed.err # "none" THEN removed
        ELSE MkdirParents(removed.fs, p)

\* The paths mkdir_empty is called on, and the files others put there.
MkPaths == { <<"d">>, <<"d", "a">>, <<"d", "b">>, <<"e">>, <<"e", "a">> }

NoOp == [name |-> "none", raised |-> "none"]

InitMk ==
    /\ fs = <<>> /\ handle = [state |-> "none", path |-> <<>>]
    /\ derived = {} /\ op = NoOp /\ before = <<>>

\* Somebody writes a file.
PutFile ==
    \E p \in MkPaths :
        /\ ~Exists(fs, p) /\ IsDir(fs, Parent(p))
        /\ fs' = With(fs, p, File("x"))
        /\ op' = [name |-> "put", raised |-> "none"]
        /\ before' = fs
        /\ UNCHANGED <<handle, derived>>

MkdirEmpty ==
    \E p \in MkPaths, exist_ok \in BOOLEAN :
        LET r == mkdir_empty(fs, p, exist_ok)
        IN  /\ fs' = r.fs
            /\ op' = [name |-> "mkdir_empty", raised |-> r.err,
                      path |-> p, exist_ok |-> exist_ok]
            /\ before' = fs
            /\ UNCHANGED <<handle, derived>>

NextMk ==
    \/ PutFile /\ UNCHANGED <<fixVars, avoidVars, outVars, numVars>>
    \/ MkdirEmpty /\ UNCHANGED <<fixVars, avoidVars, outVars, numVars>>

(***************************************************************************)
(* TempDirPath. The handle is the value TempDirPath() returns. pathlib      *)
(* builds every path derived from a path p (p / name, p.parent, the         *)
(* children p.iterdir() yields) as an instance of type(p) without calling   *)
(* __new__, so a path derived from a TempDirPath is a TempDirPath too, and  *)
(* __del__ runs on it at the end of its life: derived holds the paths of    *)
(* the derived values that are alive.                                       *)
(***************************************************************************)
TempArea == <<"tmp">>
TempNames == {"t1", "t2"}
Children == {"a", "b"}
Dest == <<"dst">>

\* create_temp_path(''): the names the loop may end on, none of them existing.
create_temp_path(f) == {TempArea \o <<n>> : n \in {m \in TempNames : ~Exists(f, TempArea \o <<m>>)}}

\* TempDirPath.__del__ (of the handle and of every derived value):
\* shutil.rmtree(self.as_posix(), ignore_errors=True)
Teardown(f, p) == RmTree(f, p, TRUE)

\* (a variant of Empty that does not make the directory again)
Empty_without_mkdir(f, p) == RmTree(f, p, FALSE)

\* TempDirPath.empty: shutil.rmtree(self.as_posix()); self.mkdir()
Empty(f, p) ==
    LET r == RmTree(f, p, FALSE)
    IN  IF r.err # "none" THEN r ELSE Mkdir(r.fs, p)

\* The loop of move_contents over the children in the order iterdir yields
\* them; the first shutil.move that raises ends it (failed: its source).
RECURSIVE MoveEach(_, _, _, _)
MoveEach(f, order, self, dir_path) ==
    IF order = <<>> THEN [fs |-> f, err |-> "none", failed |-> <<>>]
    ELSE LET src == self \o <<Head(order)>>
             r == ShutilMove(f, src, dir_path \o <<Head(order)>>)
         IN  IF r.err # "none"
             THEN [fs |-> r.fs, err |-> r.err, failed |-> src]
             ELSE MoveEach(r.fs, Tail(order), self, dir_path)

\* TempDirPath.move_contents(dir_path). In a method of the class the name
\* __Path is mangled to _TempDirPath__Path, which no scope defines: the
\* conversion of a str raises NameError (a Path is taken as it is).
move_contents(f, order, self, dir_path, is_str) ==
    IF is_str THEN [fs |-> f, err |-> "NameError", failed |-> <<>>]
    ELSE IF ~Exists(f, self)
    THEN [fs |-> f, err |-> "FileNotFoundError", failed |-> <<>>]
    ELSE MoveEach(f, order, self, dir_path)

\* The orders iterdir may yield the names in.
Orders(names) ==
    {o \in [1..Cardinality(names) -> names] :
        \A i, j \in 1..Cardinality(names) : i # j => o[i] # o[j]}

\* The file systems a TempDirPath is constructed in: a temporary area,
\* where a name may be taken, and a destination directory that holds the
\* file k and maybe an entry a: a file, a directory, a directory with a file a.
TempStarts ==
    { [q \in {TempArea, Dest, Dest \o <<"k">>} \cup stale \cup da |->
          IF q \in {TempArea, Dest, Dest \o <<"a">>} /\ q \notin files
          THEN Dir ELSE File("old")] :
        stale \in {{}, {TempArea \o <<"t1">>}},
        da \in {{}, {Dest \o <<"a">>}, {Dest \o <<"a">>, Dest \o <<"a", "a">>}},
        files \in {{}, {Dest \o <<"a">>}} }

InitTemp ==
    /\ fs \in {f \in TempStarts :
                  \A q \in DOMAIN f : IsDir(f, Parent(q))}
    /\ handle = [state |-> "none", path |-> <<>>]
    /\ derived = {}
    /\ op = NoOp
    /\ before = <<>>

\* TempDirPath(): temp_path = create_temp_path(''); temp_path.mkdir()
New ==
    /\ handle.state = "none"
    /\ \E p \in create_temp_path(fs) :
          /\ fs' = Mkdir(fs, p).fs
          /\ handle' = [state |-> "live", path |-> p]
          /\ op' = [name |-> "new", raised |-> Mkdir(fs, p).err]
    /\ before' = fs
    /\ UNCHANGED derived

\* (self / name).write_text(data): the child is a derived value.
WriteChild ==
    /\ handle.state = "live"
    /\ Cardinality(derived) < MaxDerived
    /\ \E name \in Children :
          LET child == handle.path \o <<name>>
              err == IF IsDir(fs, child) THEN "IsADirectoryError"
                     ELSE IF ~IsDir(fs, handle.path) THEN "FileNotFoundError"
                     ELSE "none"
          IN  /\ fs' = IF err = "none" THEN With(fs, child, File("new")) ELSE fs
              /\ derived' = derived \cup {child}
              /\ op' = [name |-> "write_child", raised |-> err]
    /\ before' = fs
    /\ UNCHANGED handle

\* (self / name).mkdir()
MkdirChild ==
    /\ handle.state = "live"
    /\ Cardinality(derived) < MaxDerived
    /\ \E name \in Children :
          LET child == handle.path \o <<name>>
          IN  /\ fs' = Mkdir(fs, child).fs
              /\ derived' = derived \cup {child}
              /\ op' = [name |-> "mkdir_child", raised |-> Mkdir(fs, child).err]
    /\ before' = fs
    /\ UNCHANGED handle

\* (self / name / 'x').write_text(data): two derived values, of which the
\* second names a file: its __del__ removes nothing, and it is not kept.
WriteGrandchild ==
    /\ handle.state = "live"
    /\ Cardinality(derived) < MaxDerived
    /\ \E name \in Children :
          LET child == handle.path \o <<name>>
              err == IF ~Exists(fs, child) THEN "FileNotFoundError"
                     ELSE IF ~IsDir(fs, child) THEN "NotADirectoryError"
                     ELSE "none"
          IN  /\ fs' = IF err = "none"
                       THEN With(fs, child \o <<"x">>, File("new")) ELSE fs
              /\ derived' = derived \cup {child}
              /\ op' = [name |-> "write_grandchild", raised |-> err]
    /\ before' = fs
    /\ UNCHANGED handle

\* The end of the life of a derived value: __del__ runs on its path.
DerivedDel ==
    \E p \in derived :
        /\ fs' = Teardown(fs, p).fs
        /\ derived' = derived \ {p}
        /\ op' = [name |-> "derived_del", raised |-> Teardown(fs, p).err,
                  path |-> p]
        /\ before' = fs
        /\ UNCHANGED handle

\* self.empty()
EmptyCall ==
    /\ handle.state = "live"
    /\ fs' = Empty(fs, handle.path).fs
    /\ op' = [name |-> "empty", raised |-> Empty(fs, handle.path).err]
    /\ before' = fs
    /\ UNCHANGED <<handle, derived>>

\* self.move_contents(dest), dest an existing directory outside of the
\* temporary directory, given as a Path or as a str. The children iterdir
\* yields are derived values: one that was moved names a path that is gone
\* when its life ends (at the next turn of the loop), and the one whose move
\* raised lives on as long as the exception does.
MoveContents ==
    /\ handle.state = "live"
    /\ Cardinality(derived) < MaxDerived
    /\ IsDir(fs, Dest)
    /\ \E is_str \in BOOLEAN, order \in Orders(ChildNames(fs, handle.path)) :
          LET r == move_contents(fs, order, handle.path, Dest, is_str)
          IN  /\ fs' = r.fs
              /\ derived' = IF r.failed = <<>> THEN derived
                            ELSE derived \cup {r.failed}
              /\ op' = [name |-> "move_contents", raised |-> r.err]
    /\ before' = fs
    /\ UNCHANGED handle

\* The end of the life of the handle: __del__
Del ==
    /\ handle.state = "live"
    /\ fs' = Teardown(fs, handle.path).fs
    /\ handle' = [handle EXCEPT !.state = "dead"]
    /\ op' = [name |-> "del", raised |-> Teardown(fs, handle.path).err]
    /\ before' = fs
    /\ UNCHANGED derived

\* self.parent: one more derived value.
TakeParent ==
    /\ handle.state = "live"
    /\ Cardinality(derived) < MaxDerived
    /\ Parent(handle.path) \notin derived
    /\ derived' = derived \cup {Parent(handle.path)}
    /\ op' = [name |-> "parent", raised |-> "none"]
    /\ before' = fs
    /\ UNCHANGED <<fs, handle>>

NextTemp ==
    \/ New /\ UNCHANGED <<fixVars, avoidVars, outVars, numVars>>
    \/ WriteChild /\ UNCHANGED <<fixVars, avoidVars, outVars, numVars>>
    \/ MkdirChild /\ UNCHANGED <<fixVars, avoidVars, outVars, numVars>>
    \/ WriteGrandchild /\ UNCHANGED <<fixVars, avoidVars, outVars, numVars>>
    \/ DerivedDel /\ UNCHANGED <<fixVars, avoidVars, outVars, numVars>>
    \/ EmptyCall /\ UNCHANGED <<fixVars, avoidVars, outVars, numVars>>
    \/ MoveContents /\ UNCHANGED <<fixVars, avoidVars, outVars, numVars>>
    \/ Del /\ UNCHANGED <<fixVars, avoidVars, outVars, numVars>>

NextOwn ==
    \/ NextTemp
    \/ TakeParent /\ UNCHANGED <<fixVars, avoidVars, outVars, numVars>>

(***************************************************************************)
(* The state of a component that is not running.                           *)
(***************************************************************************)
AvoidIdle == InitAvoid
TempIdle == InitMk
OutIdle == txt = Absent /\ outputter = [made |-> FALSE] /\ msgs = <<>>
NumIdle ==
    /\ ni_args = [start |-> 0, stop |-> 0]
    /\ ni_read = <<>>
    /\ ni_state = [pc |-> "reading", result |-> 0, err |-> "none"]

NextFix ==
    \/ FixOnce /\ UNCHANGED <<avoidVars, tempVars, outVars, numVars>>
    \/ FixTwice /\ UNCHANGED <<avoidVars, tempVars, outVars, numVars>>

StartFix == InitFix /\ AvoidIdle /\ TempIdle /\ OutIdle /\ NumIdle

SpecFix == StartFix /\ [][NextFix]_vars

StartAvoid == FixIdle /\ InitAvoid /\ TempIdle /\ OutIdle /\ NumIdle

SpecAvoid == StartAvoid /\ [][NextAvoid]_vars

StartOut == FixIdle /\ AvoidIdle /\ TempIdle /\ InitOut /\ NumIdle

SpecOut == StartOut /\ [][NextOut]_vars

StartNum == FixIdle /\ AvoidIdle /\ TempIdle /\ OutIdle /\ InitNum

StartMk == FixIdle /\ AvoidIdle /\ InitMk /\ OutIdle /\ NumIdle

SpecMk == StartMk /\ [][NextMk]_vars

StartTemp == FixIdle /\ AvoidIdle /\ InitTemp /\ OutIdle /\ NumIdle

SpecTemp == StartTemp /\ [][NextTemp]_vars

SpecOwn == StartTemp /\ [][NextOwn]_vars

SpecNum == StartNum /\ [][NextNum]_vars

(***************************************************************************)
(* Claims about fix_path.                                                  *)
(***************************************************************************)

\* The replacement rules on the component at index i, as the description of
\* fix_path states them (a component no rule applies to is kept).
ComponentRules(i, comp, fl, pre, c) ==
    LET r1 == IF ~pre /\ comp[1] = "." /\ ~IsDots(comp)
              THEN <<c>> \o Tail(comp) ELSE comp
        w1 == IF i = 1 /\ IsDriveRoot(r1) THEN r1
              ELSE ReplaceChars(r1, WinIllegal, c)
    IN  IF fl = "posix" THEN ReplaceChars(r1, {":"}, c)
        ELSE ReservedComp(TrailingPeriodComp(w1, c), c)

\* C1: fix_path returns a path with as many components as its input, in the
\* same order: the component at index i is the input's component at index i
\* after the replacement rules; none is dropped, none is added.
C1_SameShape ==
    fixed1 # NotCalled =>
        /\ fixed1.err = "none"
        /\ Len(fixed1.parts) = Len(path)
        /\ \A i \in 1..Len(path) :
              fixed1.parts[i] =
                  ComponentRules(i, path[i], flavour, pre_period, new_char)

\* C2: fix_path is idempotent: fixing the fixed path changes nothing.
C2_Idempotent ==
    fixed2 # NotCalled => fixed2 = fixed1

\* The name of a component up to its first period, in lower case.
RECURSIVE UpToFirstPeriod(_)
UpToFirstPeriod(comp) ==
    IF comp = <<>> \/ Head(comp) = "." THEN <<>>
    ELSE <<Lower(Head(comp))>> \o UpToFirstPeriod(Tail(comp))

DeviceNames ==
    { <<"a", "u", "x">>, <<"c", "o", "n">>, <<"n", "u", "l">>, <<"p", "r", "n">> }
    \cup { <<"c", "o", "m", d>> : d \in Digits }
    \cup { <<"l", "p", "t", d>> : d \in Digits }

\* A component Windows accepts.
LegalOnWindows(comp) ==
    /\ \A i \in 1..Len(comp) : comp[i] \notin WinIllegal
    /\ comp[Len(comp)] = "." => IsDots(comp)
    /\ UpToFirstPeriod(comp) \notin DeviceNames

\* C3: on a Windows path with replacement '_', every component returned,
\* but a drive with its root at index 0, is legal on Windows: no illegal
\* character, no trailing period (but '.' and '..'), no device name before
\* the first period; con.txt becomes con_.txt, and a:b*c (the parts a: and
\* b*c) has its ':' and its '*' replaced.
C3_WindowsLegal ==
    (fixed1 # NotCalled /\ flavour = "windows" /\ new_char = "_") =>
        /\ fixed1.err = "none"
        /\ \A i \in 1..Len(fixed1.parts) :
              \/ i = 1 /\ IsDriveRoot(fixed1.parts[i])
              \/ LegalOnWindows(fixed1.parts[i])
        /\ (pre_period /\ path = << <<"c", "o", "n", ".", "t", "x", "t">> >>)
              => fixed1.parts = << <<"c", "o", "n", "_", ".", "t", "x", "t">> >>
        /\ (pre_period /\ path = << <<"a", ":">>, <<"b", "*", "c">> >>)
              => fixed1.parts = << <<"a", "_">>, <<"b", "_", "c">> >>

\* A Windows path whose second component is a device name with an
\* extension has been fixed with '_', and that component was changed.
C3_Witness ==
    /\ fixed1 # NotCalled /\ flavour = "windows" /\ new_char = "_"
    /\ pre_period
    /\ Len(path) = 2 /\ Len(fixed1.parts) = 2
    /\ path[2] = <<"c", "o", "m", "1", ".", "a", ".", "b">>
    /\ fixed1.parts[2] = <<"c", "o", "m", "1", "_", ".", "a", ".", "b">>

(***************************************************************************)
(* Claims about avoid_overwrite.                                           *)
(***************************************************************************)

\* C4: avoid_overwrite returns the path itself when it does not exist, and
\* otherwise '<name> (n)' (is_dir) or '<stem> (n)<extension>' for the
\* smallest n >= 1 that does not exist; what it returns does not exist when
\* it returns, and the call creates and deletes nothing.
C4_FirstFreeName ==
    ao_call # <<>> =>
        LET c == ao_call
            Numbered(n) ==
                IF c.is_dir
                THEN c.path \o <<" ", "(">> \o Str(n) \o <<")">>
                ELSE Stem(c.path) \o <<" ", "(">> \o Str(n) \o <<")">>
                        \o Suffix(c.path)
        IN  /\ c.now = c.was
            /\ c.result \notin c.now
            /\ c.path \notin c.was => c.result = c.path
            /\ c.path \in c.was =>
                  \E n \in 1..(Cardinality(c.was) + 1) :
                      /\ c.result = Numbered(n)
                      /\ \A m \in 1..(n - 1) : Numbered(m) \in c.was

\* report.txt and 'report (1).txt' exist, and the call returned
\* 'report (2).txt'.
C4_Witness ==
    /\ ao_call # <<>>
    /\ ao_call.path = <<"r", "e", "p", "o", "r", "t", ".", "t", "x", "t">>
    /\ ~ao_call.is_dir
    /\ ao_call.path \in ao_call.was
    /\ <<"r", "e", "p", "o", "r", "t", " ", "(", "1", ")", ".", "t", "x", "t">>
          \in ao_call.was
    /\ ao_call.result =
          <<"r", "e", "p", "o", "r", "t", " ", "(", "2", ")", ".", "t", "x", "t">>

(***************************************************************************)
(* Claims about Outputter.                                                 *)
(***************************************************************************)
RECURSIVE Concat(_)
Concat(ms) == IF ms = <<>> THEN <<>> ELSE Head(ms) \o Concat(Tail(ms))

\* C7: once the Outputter is constructed the file exists, and it holds the
\* concatenation of the messages output so far, in call order (nothing
\* right after construction, whatever the file held before).
C7_FileIsConcatenation ==
    outputter.made => txt.exists /\ txt.content = Concat(msgs)

\* Two output calls, "a" then "b", left "ab" in the file.
C7_Witness ==
    /\ outputter.made
    /\ msgs = << <<"a">>, <<"b">> >>
    /\ txt.content = <<"a", "b">>

(***************************************************************************)
(* Claims about num_input.                                                 *)
(***************************************************************************)

\* The line parses as an integer of [start, stop).
IsValidLine(line) ==
    /\ ParseInt(line).ok
    /\ ParseInt(line).val \in ni_args.start..(ni_args.stop - 1)

\* C9: num_input returns only a value of [start, stop), the integer of the
\* first line read that parses as one; the lines before it were passed over
\* without an error, and while no such line is read it does not return
\* (never when start >= stop).
C9_FirstValidLine ==
    /\ ni_state.pc = "returned" =>
          /\ ni_read # <<>>
          /\ ni_args.start <= ni_state.result
          /\ ni_state.result < ni_args.stop
          /\ IsValidLine(ni_read[Len(ni_read)])
          /\ ni_state.result = ParseInt(ni_read[Len(ni_read)]).val
          /\ \A j \in 1..(Len(ni_read) - 1) : ~IsValidLine(ni_read[j])
    /\ ni_state.pc = "reading" =>
          /\ ni_state.err = "none"
          /\ \A j \in 1..Len(ni_read) : ~IsValidLine(ni_read[j])
    /\ ni_args.start >= ni_args.stop => ni_state.pc # "returned"

\* An integer out of the range was passed over, and the second line, in the
\* range, was returned.
C9_Witness ==
    /\ ni_state.pc = "returned"
    /\ Len(ni_read) = 2
    /\ ParseInt(ni_read[1]).ok
    /\ ~IsValidLine(ni_read[1])
    /\ ni_state.result = 1

(***************************************************************************)
(* Claims about mkdir_empty.                                               *)
(***************************************************************************)

\* C8: mkdir_empty(path, exist_ok=False) on a path that exists fails with a
\* file-exists error and leaves the entry and what it holds as they were;
\* with exist_ok=True the entry is replaced by an empty directory.
C8_ExistingPathRefused ==
    (op.name = "mkdir_empty" /\ Exists(before, op.path)) =>
        IF op.exist_ok
        THEN /\ op.raised = "none"
             /\ fs = With(Without(before, Subtree(before, op.path)), op.path, Dir)
        ELSE /\ op.raised = "FileExistsError"
             /\ fs = before

(***************************************************************************)
(* Claims about TempDirPath.                                               *)
(***************************************************************************)

\* C5: right after construction the directory of the handle exists and is
\* empty; after every operation on the live handle (children made in it,
\* empty(), move_contents) it still exists at the path of the handle, and
\* after empty() it has no children; once the handle's life has ended the
\* directory and all it held are gone, and the teardown raised nothing.
C5_Lifecycle ==
    /\ handle.state = "live" => IsDir(fs, handle.path)
    /\ op.name = "new" =>
          /\ op.raised = "none"
          /\ ~Exists(before, handle.path)
          /\ ChildNames(fs, handle.path) = {}
    /\ op.name = "empty" =>
          /\ op.raised = "none"
          /\ ChildNames(fs, handle.path) = {}
    /\ handle.state = "dead" => Subtree(fs, handle.path) = {}
    /\ op.name = "del" => op.raised = "none"

\* The life of a handle whose directory held a child with something in it
\* has just ended.
C5_Witness ==
    /\ handle.state = "dead"
    /\ op.name = "del"
    /\ Cardinality(Subtree(before, handle.path)) >= 3
    /\ Subtree(fs, handle.path) = {}

\* What is at p: the tree below p, by the paths relative to p.
TreeAt(f, p) ==
    [r \in {SubSeq(q, Len(p) + 1, Len(q)) : q \in Subtree(f, p)} |-> f[p \o r]]

\* C6: move_contents(dest) moves every direct child of the temporary
\* directory to dest/<name>: afterwards the temporary directory has no
\* children, dest/<name> holds exactly what the child held, also when dest
\* had a file or a directory of that name, and the entries of dest with
\* other names are as they were.
C6_AllChildrenMoved ==
    op.name = "move_contents" =>
        LET names == ChildNames(before, handle.path)
        IN  /\ op.raised = "none"
            /\ ChildNames(fs, handle.path) = {}
            /\ \A n \in names :
                  TreeAt(fs, Dest \o <<n>>) = TreeAt(before, handle.path \o <<n>>)
            /\ \A q \in Subtree(before, Dest) :
                  (Len(q) > Len(Dest) /\ q[Len(Dest) + 1] \notin names)
                      => (q \in DOMAIN fs /\ fs[q] = before[q])

\* C10: only the handle deletes: the end of the life of a derived value (a
\* child, the parent) changes nothing in the file system, and the teardown
\* of the handle removes nothing but the directory made at construction
\* and what it holds.
C10_OnlyTheHandleDeletes ==
    /\ op.name = "derived_del" => fs = before
    /\ op.name = "del" =>
          /\ \A q \in DOMAIN before \ DOMAIN fs : IsPrefix(handle.path, q)
          /\ \A q \in DOMAIN fs : q \in DOMAIN before /\ fs[q] = before[q]

====
